---- MODULE Spec2Model ----
(***************************************************************************)
(* ReferenceArrayField (packages/ra-ui-materialui/src/field):              *)
(* one render of the component is the pipeline                             *)
(*   child-count check -> controller hook -> list-context provider ->      *)
(*   memoised view,                                                        *)
(* repeated for every re-render (new props from the parent, or a new       *)
(* result from the controller hook).                                       *)
(*                                                                         *)
(* JavaScript values: an optional value is a tuple, <<>> for undefined     *)
(* and <<v>> for v.  A props bag is a record; an id list is represented    *)
(* by its length (only how many records are displayed is observed here).   *)
(***************************************************************************)
EXTENDS Integers, Sequences, FiniteSets, TLC

VARIABLES
    props,            \* the props of the current render
    pc,               \* position in the render: "check", "hook", "provide", "view", "done", "thrown"
    error,            \* message of the Error thrown by this render, "" when none
    ctrlCalls,        \* arguments of each controller-hook call of this render
    controllerProps,  \* the hook's result of this render (optional)
    ctxValue,         \* value given to ListContextProvider in this render (optional)
    viewProps,        \* props given to PureReferenceArrayFieldView in this render (optional)
    memoProps,        \* props of the view's last actual render, kept by React.memo (optional)
    output,           \* nodes on screen: the view's last committed output
    sanitizeOmit      \* the prop names sanitizeRestProps removes

vars == <<props, pc, error, ctrlCalls, controllerProps, ctxValue, viewProps,
          memoProps, output, sanitizeOmit>>

(* ------------------------------ bounds -------------------------------- *)
MaxChildren == 2
MaxPage == 0
MaxPerPage == 1
MaxTotal == 0
MaxRefs == 2

(* ------------------------------ values -------------------------------- *)
Undefined == <<>>
Some(v) == <<v>>

Min(a, b) == IF a <= b THEN a ELSE b

\* {...a, ...b}
Spread(a, b) ==
    [k \in DOMAIN a \cup DOMAIN b |-> IF k \in DOMAIN b THEN b[k] ELSE a[k]]

\* const { k1, k2, ...rest } = p
Rest(p, keys) == [k \in DOMAIN p \ keys |-> p[k]]

UsageError == "<ReferenceArrayField> only accepts a single child (like <Datagrid>)"

DefaultPerPage == 1000

(* ----------------------------- elements ------------------------------- *)
Datagrid == [type |-> "Datagrid", props |-> [rowClick |-> Some("edit")]]
ExtraChild == [type |-> "TextField", props |-> [source |-> Some("id")]]
Pagination == [type |-> "Pagination", props |-> [rowsPerPageOptions |-> Some("5,10")]]
LinearProgress(className) == [type |-> "LinearProgress", props |-> [className |-> className]]
TextNode(s) == [type |-> "text", props |-> [value |-> Some(s)]]

\* React.cloneElement(element, config)
cloneElement(element, config) ==
    [type |-> element.type, props |-> Spread(element.props, config)]

\* React.Children.count(children)
ChildrenCount(children) == Len(children)

\* children of the field: 0..MaxChildren elements, the first one a Datagrid
ChildrenOf(n) == [i \in 1..n |-> IF i = 1 THEN Datagrid ELSE ExtraChild]

(* ------------------------------- props -------------------------------- *)
Records == { [id |-> 1, refs |-> n] : n \in {MaxRefs, DefaultPerPage + MaxRefs} }

Props ==
    [ addLabel   : {Some(TRUE)},
      basePath   : {Some("/posts")},
      children   : {ChildrenOf(n) : n \in 0..MaxChildren},
      classes    : {Undefined},
      className  : {Some("tags")},
      filter     : {Some("is_published")},
      page       : {Undefined} \cup {Some(n) : n \in 0..MaxPage},
      pagination : {Undefined, Some(Pagination)},
      perPage    : {Undefined} \cup {Some(n) : n \in 1..MaxPerPage},
      record     : {Some(r) : r \in Records},
      reference  : {Some("tags")},
      resource   : {Some("posts")},
      sort       : {Undefined, Some([field |-> "name", order |-> "ASC"])},
      source     : {Some("tag_ids")} ]

(* --------------------------- collaborators ---------------------------- *)
\* What the data provider has delivered to the hook by the time of a render.
FetchStates ==
    [ loaded   : BOOLEAN,
      resource : {Some("posts"), Some("tags")},
      total    : {Undefined} \cup {Some(n) : n \in 0..MaxTotal} ]

\* useReferenceArrayFieldController(args), given the fetch state
useReferenceArrayFieldController(args, fetch) ==
    LET limit == IF args.perPage = Undefined THEN DefaultPerPage ELSE args.perPage[1]
        refs  == args.record[1].refs
    IN  [ basePath |-> args.basePath,
          ids      |-> IF fetch.loaded THEN Some(Min(limit, refs)) ELSE Some(0),
          loaded   |-> fetch.loaded,
          page     |-> args.page,
          perPage  |-> Some(limit),
          resource |-> fetch.resource,
          total    |-> fetch.total ]

\* sanitizeRestProps(props): lodash omit of a fixed list of field props
SanitizeLists ==
    { {"addLabel"},
      {"addLabel", "basePath", "record", "resource", "source"} }

sanitizeRestProps(p) == Rest(p, sanitizeOmit)

\* useStyles(props).progress
ProgressClass == Some("RaReferenceArrayField-progress")

(* ------------------------ ReferenceArrayField ------------------------- *)
\* mutant: page || 1
DefaultPage_Falsy(page) == IF page = Undefined \/ page = Some(0) THEN Some(1) ELSE page

\* page = 1 in the destructuring
DefaultPage(page) == IF page = Undefined THEN Some(1) ELSE page

\* mutant: perPage is not forwarded
ControllerArgs_NoPerPage(p) ==
    [ basePath  |-> p.basePath,
      filter    |-> p.filter,
      page      |-> IF p.page = Undefined THEN Some(1) ELSE p.page,
      perPage   |-> Undefined,
      record    |-> p.record,
      reference |-> p.reference,
      resource  |-> p.resource,
      sort      |-> p.sort,
      source    |-> p.source ]

\* mutant: sort = { field: 'id', order: 'ASC' } in the destructuring
ControllerArgs_DefaultSort(p) ==
    [ basePath  |-> p.basePath,
      filter    |-> p.filter,
      page      |-> IF p.page = Undefined THEN Some(1) ELSE p.page,
      perPage   |-> p.perPage,
      record    |-> p.record,
      reference |-> p.reference,
      resource  |-> p.resource,
      sort      |-> IF p.sort = Undefined
                    THEN Some([field |-> "id", order |-> "ASC"]) ELSE p.sort,
      source    |-> p.source ]

\* the object literal handed to useReferenceArrayFieldController
ControllerArgs(p) ==
    [ basePath  |-> p.basePath,
      filter    |-> p.filter,
      page      |-> DefaultPage(p.page),
      perPage   |-> p.perPage,
      record    |-> p.record,
      reference |-> p.reference,
      resource  |-> p.resource,
      sort      |-> p.sort,
      source    |-> p.source ]

\* mutant: only the missing child is refused
NotSingleChild_OnlyEmpty(p) == Len(p.children) = 0

\* React.Children.count(children) !== 1
NotSingleChild(p) == ChildrenCount(p.children) # 1

\* mutant: {...controllerProps} {...props}
ViewPropsOf_PropsLast(p, c) ==
    [k \in DOMAIN p \cup DOMAIN c |-> IF k \in DOMAIN p THEN p[k] ELSE c[k]]

\* <PureReferenceArrayFieldView {...props} {...controllerProps} />
ViewPropsOf(p, c) == Spread(p, c)

(* ---------------------- ReferenceArrayFieldView ----------------------- *)
ViewRest(p) == Rest(p, {"children", "pagination", "className", "reference"})

\* mutant: the sanitized rest is spread last
ChildConfig_RestLast(p) ==
    Spread([className |-> p.className, resource |-> p.reference],
           sanitizeRestProps(ViewRest(p)))

\* props injected into the cloned child
ChildConfig(p) ==
    Spread(sanitizeRestProps(ViewRest(p)),
           [className |-> p.className, resource |-> p.reference])

\* mutant: pagination && props.total
ShowsPagination_Truthy(p) ==
    p.pagination # Undefined /\ p.total # Undefined /\ p.total # Some(0)

\* pagination && props.total !== undefined
ShowsPagination(p) == p.pagination # Undefined /\ p.total # Undefined

\* mutant: the loading branch is taken only while total is unknown too
ReferenceArrayFieldView_TotalGuard(p) ==
    IF ~p.loaded /\ p.total = Undefined
    THEN << LinearProgress(ProgressClass) >>
    ELSE << cloneElement(p.children[1], ChildConfig(p)), TextNode(" ") >>
         \o ( IF ShowsPagination(p)
              THEN << cloneElement(p.pagination[1], sanitizeRestProps(ViewRest(p))) >>
              ELSE << >> )

ReferenceArrayFieldView(p) ==
    IF ~p.loaded
    THEN << LinearProgress(ProgressClass) >>
    ELSE << cloneElement(p.children[1], ChildConfig(p)), TextNode(" ") >>
         \o ( IF ShowsPagination(p)
              THEN << cloneElement(p.pagination[1], sanitizeRestProps(ViewRest(p))) >>
              ELSE << >> )

\* mutant: a comparison that looks at the field's own props only
PropsAreEqual_OwnPropsOnly(prev, next) ==
    /\ prev # Undefined
    /\ \A k \in {"children", "pagination", "record", "reference", "sort", "source"} :
         prev[1][k] = next[k]

\* React.memo's default comparison of the previous and next props
PropsAreEqual(prev, next) == prev = Some(next)

(* ------------------------------ actions ------------------------------- *)
Init ==
    /\ props \in Props
    /\ pc = "check"
    /\ error = ""
    /\ ctrlCalls = << >>
    /\ controllerProps = Undefined
    /\ ctxValue = Undefined
    /\ viewProps = Undefined
    /\ memoProps = Undefined
    /\ output = << >>
    /\ sanitizeOmit \in SanitizeLists

\* mutant: the hook is called first, the children are counted after it
CheckChildrenThrow_AfterHook ==
    /\ pc = "check"
    /\ NotSingleChild(props)
    /\ ctrlCalls' = Append(ctrlCalls, ControllerArgs(props))
    /\ error' = UsageError
    /\ pc' = "thrown"
    /\ output' = << >>
    /\ memoProps' = Undefined
    /\ UNCHANGED <<props, controllerProps, ctxValue, viewProps, sanitizeOmit>>

\* the throw: React unmounts the field, so nothing of it stays on screen
CheckChildrenThrow ==
    /\ pc = "check"
    /\ NotSingleChild(props)
    /\ error' = UsageError
    /\ pc' = "thrown"
    /\ output' = << >>
    /\ memoProps' = Undefined
    /\ UNCHANGED <<props, ctrlCalls, controllerProps, ctxValue, viewProps, sanitizeOmit>>

CheckChildrenPass ==
    /\ pc = "check"
    /\ ~NotSingleChild(props)
    /\ pc' = "hook"
    /\ UNCHANGED <<props, error, ctrlCalls, controllerProps, ctxValue, viewProps,
                   memoProps, output, sanitizeOmit>>

CallController ==
    /\ pc = "hook"
    /\ \E fetch \in FetchStates :
         LET args == ControllerArgs(props) IN
         /\ ctrlCalls' = Append(ctrlCalls, args)
         /\ controllerProps' = Some(useReferenceArrayFieldController(args, fetch))
    /\ pc' = "provide"
    /\ UNCHANGED <<props, error, ctxValue, viewProps, memoProps, output, sanitizeOmit>>

RenderProvider ==
    /\ pc = "provide"
    /\ ctxValue' = controllerProps
    /\ viewProps' = Some(ViewPropsOf(props, controllerProps[1]))
    /\ pc' = "view"
    /\ UNCHANGED <<props, error, ctrlCalls, controllerProps, memoProps, output, sanitizeOmit>>

\* memo: equal props, the previous output is reused
RenderViewMemoHit ==
    /\ pc = "view"
    /\ PropsAreEqual(memoProps, viewProps[1])
    /\ pc' = "done"
    /\ UNCHANGED <<props, error, ctrlCalls, controllerProps, ctxValue, viewProps,
                   memoProps, output, sanitizeOmit>>

RenderView ==
    /\ pc = "view"
    /\ ~PropsAreEqual(memoProps, viewProps[1])
    /\ output' = ReferenceArrayFieldView(viewProps[1])
    /\ memoProps' = viewProps
    /\ pc' = "done"
    /\ UNCHANGED <<props, error, ctrlCalls, controllerProps, ctxValue, viewProps, sanitizeOmit>>

StartRender(p) ==
    /\ props' = p
    /\ pc' = "check"
    /\ error' = ""
    /\ ctrlCalls' = << >>
    /\ controllerProps' = Undefined
    /\ ctxValue' = Undefined
    /\ viewProps' = Undefined
    /\ UNCHANGED <<memoProps, output, sanitizeOmit>>

\* the parent renders the field again, with any props
ParentRender ==
    /\ pc \in {"done", "thrown"}
    /\ \E p \in Props : StartRender(p)

\* the controller hook's state changed: same props, new render
ControllerUpdate ==
    /\ pc = "done"
    /\ StartRender(props)

Next ==
    \/ CheckChildrenThrow
    \/ CheckChildrenPass
    \/ CallController
    \/ RenderProvider
    \/ RenderViewMemoHit
    \/ RenderView
    \/ ParentRender
    \/ ControllerUpdate

Spec == Init /\ [][Next]_vars

(* ------------------------------ claims -------------------------------- *)
Shows(out, type) == \E i \in 1..Len(out) : out[i].type = type

\* the render has run its view to the end
Rendered == pc = "done"

\* the render has got past the child-count check
Checked == pc # "check"

Loaded == controllerProps[1].loaded

\* C1: the usage error is raised if and only if the number of children is
\* not exactly 1 (zero, or two and more); with exactly one child the render
\* goes on without it.
C1_UsageErrorIffNotSingleChild ==
    Checked =>
      /\ (error = UsageError) <=> (Len(props.children) # 1)
      /\ (pc = "thrown") <=> (Len(props.children) # 1)
      /\ Len(props.children) = 1 => error = ""

C1_Witness == pc = "thrown" /\ error = UsageError /\ Len(props.children) = 0

\* C2: while the controller result has loaded = false the view's output is
\* the loading indicator alone: no child and no pagination, whatever
\* pagination, total and ids are.
C2_LoadingShowsOnlyProgress ==
    (Rendered /\ ~Loaded) =>
      /\ Len(output) = 1
      /\ output[1].type = "LinearProgress"
      /\ ~Shows(output, "Datagrid")
      /\ ~Shows(output, "Pagination")

C2_Witness ==
    /\ Rendered /\ ~Loaded
    /\ props.pagination # Undefined
    /\ controllerProps[1].total # Undefined
    /\ output[1].type = "LinearProgress"

\* C3: once loaded, the first node is the clone of the single child; its
\* injected props are the sanitized rest of the view props (everything but
\* children, pagination, className and reference), plus className, plus
\* resource = reference, also when the resource among the view props
\* differs; the loading indicator is not rendered.
C3_ChildGetsSanitizedRestAndReference ==
    (Rendered /\ Loaded) =>
      LET child == output[1]
          vp    == viewProps[1]
          kept  == (DOMAIN vp \ {"children", "pagination", "className", "reference"})
                   \ sanitizeOmit
      IN  /\ child.type = props.children[1].type
          /\ DOMAIN child.props =
               DOMAIN props.children[1].props \cup kept \cup {"className", "resource"}
          /\ child.props.resource = props.reference
          /\ child.props.className = props.className
          /\ \A k \in kept \ {"resource"} : child.props[k] = vp[k]
          /\ ~Shows(output, "LinearProgress")

C3_Witness ==
    /\ Rendered /\ Loaded
    /\ viewProps[1].resource # props.reference
    /\ "resource" \notin sanitizeOmit
    /\ output[1].type = "Datagrid"
    /\ output[1].props.resource = props.reference

\* C4: the pagination clone is in the output if and only if loaded = true, a
\* pagination element was given and total is not undefined (0 is a known
\* total); it then comes after the cloned child and carries the sanitized
\* rest; otherwise the child is the only element.
C4_PaginationIffTotalKnown ==
    Rendered =>
      LET vp    == viewProps[1]
          elems == { i \in 1..Len(output) : output[i].type # "text" }
      IN  /\ Shows(output, "Pagination") <=>
               (Loaded /\ props.pagination # Undefined /\ vp.total # Undefined)
          /\ Shows(output, "Pagination") =>
               /\ elems = {1, Len(output)}
               /\ output[1].type = "Datagrid"
               /\ output[Len(output)].type = "Pagination"
               /\ \A k \in (DOMAIN vp \ {"children", "pagination", "className", "reference"})
                             \ sanitizeOmit :
                    output[Len(output)].props[k] = vp[k]
               /\ "className" \notin DOMAIN output[Len(output)].props
          /\ (Loaded /\ ~Shows(output, "Pagination")) =>
               elems = {1} /\ output[1].type = "Datagrid"

C4_Witness ==
    /\ Rendered /\ Loaded
    /\ props.pagination # Undefined
    /\ viewProps[1].total = Some(0)
    /\ output[Len(output)].type = "Pagination"

\* the limit the perPage prop asks for: 1000 when it is omitted
DisplayLimit == IF props.perPage = Undefined THEN 1000 ELSE props.perPage[1]

\* how many referenced records the cloned child is given
Displayed == output[1].props.ids[1]

C6_SortRequestedAsGiven ==
    pc \in {"provide", "view", "done"} =>
      /\ Len(ctrlCalls) = 1
      /\ props.sort = Undefined => ctrlCalls[1].sort = Undefined
      /\ props.sort # Undefined => ctrlCalls[1].sort = props.sort

C6_Witness ==
    /\ Rendered
    /\ props.sort = Undefined
    /\ Len(ctrlCalls) = 1
    /\ ctrlCalls[1].sort = Undefined

ControllerFields ==
    {"basePath", "filter", "page", "perPage", "record", "reference", "resource",
     "sort", "source"}

\* C7: a render with exactly one child calls the controller hook exactly
\* once, with exactly the nine fields basePath, filter, page, perPage,
\* record, reference, resource, sort and source, each the prop of that name
\* unchanged, except page, which is 1 when the prop is undefined; children,
\* pagination, className and classes are not passed.
C7_ControllerCalledOnceWithNineProps ==
    /\ pc = "hook" => ctrlCalls = << >>
    /\ pc \in {"provide", "view", "done"} =>
         /\ Len(props.children) = 1
         /\ Len(ctrlCalls) = 1
         /\ DOMAIN ctrlCalls[1] = ControllerFields
         /\ \A k \in ControllerFields \ {"page"} : ctrlCalls[1][k] = props[k]
         /\ ctrlCalls[1].page = (IF props.page = Undefined THEN Some(1) ELSE props.page)
         /\ {"children", "pagination", "className", "classes"} \cap DOMAIN ctrlCalls[1] = {}

C7_Witness ==
    /\ Rendered
    /\ props.page = Some(0)
    /\ props.perPage = Undefined
    /\ Len(ctrlCalls) = 1
    /\ ctrlCalls[1].page = Some(0)

\* C8: when the number of children is not 1 the error is raised before the
\* controller hook is called: the hook is not called, no list context is
\* provided and no indicator, child or pagination is output.
C8_ErrorBeforeController ==
    Len(props.children) # 1 =>
      /\ ctrlCalls = << >>
      /\ controllerProps = Undefined
      /\ ctxValue = Undefined
      /\ viewProps = Undefined
      /\ pc \in {"check", "thrown"}
      /\ pc = "thrown" => (error = UsageError /\ output = << >>)

C8_Witness ==
    /\ pc = "thrown"
    /\ Len(props.children) = 2
    /\ ctrlCalls = << >>
    /\ ctxValue = Undefined

\* C9: in every render that gets to the view, loading or loaded, the list
\* context value is the controller hook's result of that render, and the
\* view props are the field's props overlaid by that result: a name in both
\* has the controller's value.
C9_ContextIsControllerResult ==
    pc \in {"view", "done"} =>
      /\ controllerProps # Undefined
      /\ ctxValue = controllerProps
      /\ viewProps # Undefined
      /\ DOMAIN viewProps[1] = DOMAIN props \cup DOMAIN controllerProps[1]
      /\ \A k \in DOMAIN controllerProps[1] : viewProps[1][k] = controllerProps[1][k]
      /\ \A k \in DOMAIN props \ DOMAIN controllerProps[1] : viewProps[1][k] = props[k]

C9_Witness ==
    /\ Rendered /\ ~Loaded
    /\ ctxValue = controllerProps
    /\ props.resource # controllerProps[1].resource
    /\ viewProps[1].resource = controllerProps[1].resource
    /\ props.perPage # viewProps[1].perPage

\* C10: the output does not latch: whatever was on screen, the render that
\* commits shows the indicator exactly when this render's loaded is false,
\* the child exactly when it is true, and the pagination exactly when loaded
\* is true, a pagination element is given and this render's total is known.
C10_OutputDoesNotLatch ==
    [][ pc = "view" =>
          /\ pc' = "done"
          /\ Shows(output', "LinearProgress") <=> ~viewProps[1].loaded
          /\ Shows(output', "Datagrid") <=> viewProps[1].loaded
          /\ Shows(output', "Pagination") <=>
               ( /\ viewProps[1].loaded
                 /\ viewProps[1].pagination # Undefined
                 /\ viewProps[1].total # Undefined ) ]_vars

C10_Witness ==
    /\ pc = "view"
    /\ memoProps # Undefined
    /\ memoProps[1].loaded /\ memoProps[1].total # Undefined
    /\ memoProps[1].pagination # Undefined
    /\ Shows(output, "Datagrid") /\ Shows(output, "Pagination")
    /\ ~viewProps[1].loaded

====
